---- MODULE Spec2Model ----
(***************************************************************************)
(* tpColorChanger: a dialog that picks one of 32 index colours and writes  *)
(* it as override colour on the selected shape / transform nodes of the    *)
(* host scene, inside one undo chunk.                                      *)
(*                                                                         *)
(* Colour channels are kept in thousandths (0.467 -> 467), so that the     *)
(* style sheet value  channel * 255  stays an integer.                     *)
(***************************************************************************)
EXTENDS Integers, Sequences, FiniteSets, TLC

\* ---------------------------------------------------------------- bounds
\* Cap on the number of apply clicks in one behaviour.
MaxApplies == 2
\* Cap on the handler calls one user event may trigger before the model
\* reports the chain as running away.
MaxChain == 6

\* ------------------------------------------------------- colour palette
cControlColors ==
  << <<467, 467, 467>>, <<0, 0, 0>>,       <<247, 247, 247>>, <<498, 498, 498>>,
     <<608, 0, 157>>,   <<0, 16, 373>>,    <<0, 0, 1000>>,    <<0, 275, 94>>,
     <<145, 0, 263>>,   <<780, 0, 780>>,   <<537, 278, 200>>, <<243, 133, 122>>,
     <<600, 145, 0>>,   <<1000, 0, 0>>,    <<0, 1000, 0>>,    <<0, 255, 600>>,
     <<1000, 1000, 1000>>, <<1000, 1000, 0>>, <<388, 863, 1000>>, <<263, 1000, 635>>,
     <<1000, 686, 686>>, <<890, 675, 475>>, <<1000, 1000, 384>>, <<0, 600, 325>>,
     <<627, 412, 188>>, <<620, 627, 188>>, <<408, 627, 188>>, <<188, 627, 365>>,
     <<188, 627, 627>>, <<188, 404, 627>>, <<435, 188, 627>>, <<627, 188, 404>> >>

\* Python indexes the list from 0.
ColorAt(index) == cControlColors[index + 1]

\* "background-color:rgb(%s, %s, %s)" % (c[0] * 255, c[1] * 255, c[2] * 255)
StyleFor(index) ==
  << ColorAt(index)[1] * 255, ColorAt(index)[2] * 255, ColorAt(index)[3] * 255 >>

\* The style sheet the label is constructed with: "background-color:rgb(0, 0, 0)".
InitialStyle == << 0, 0, 0 >>

SliderMin == 0
SliderMax == 31
SliderInit == 2

Indices == SliderMin .. SliderMax

\* ------------------------------------------------------------ variables
VARIABLES
  colorLabel,        \* style (rgb) shown by the colour preview label
  colorSlider,       \* value of the slider
  transformTypeCbx,  \* 'Transforms' checkbox checked
  shapeTypeCbx,      \* 'Shapes' checkbox checked
  changeColorBtn,    \* 'Change color' button enabled
  lastEvent,         \* the last user event and the handler calls it caused
  scene,             \* host scene: hierarchy, attribute presence, selection
  attrs,             \* host scene: attribute values
  openChunks,        \* host undo stack: number of open chunks
  hostLog,           \* calls made to the host, in order
  applies            \* one record per apply click

uiVars == << colorLabel, colorSlider, transformTypeCbx, shapeTypeCbx, changeColorBtn >>
hostVars == << scene, attrs, openChunks, hostLog, applies >>
vars == << colorLabel, colorSlider, transformTypeCbx, shapeTypeCbx, changeColorBtn,
           lastEvent, scene, attrs, openChunks, hostLog, applies >>

\* ------------------------------------------- slider / preview handlers
\* A widget pair threaded through one chain of handler calls:
\*   label, slider: the widget values; calls: handler calls made so far;
\*   overflow: the chain was cut off at MaxChain calls.
RECURSIVE _setColor(_, _), _setSlider(_, _), QSliderSetValue(_, _)

ClampToRange(v) ==
  IF v < SliderMin THEN SliderMin ELSE IF v > SliderMax THEN SliderMax ELSE v

\* QSlider.setValue: clamps, returns when the value is unchanged, else stores
\* it and emits valueChanged, which runs the connected slot _setSlider.
QSliderSetValue(w, v) ==
  IF ClampToRange(v) = w.slider
    THEN w
    ELSE _setSlider([w EXCEPT !.slider = ClampToRange(v)], ClampToRange(v))

\* Variant of _setColor that leaves the slider alone.
_setColor_noSlider(w, index) ==
  IF w.calls >= MaxChain
    THEN [w EXCEPT !.overflow = TRUE]
    ELSE [w EXCEPT !.calls = @ + 1, !.label = StyleFor(index)]

\* Variant of _setColor that moves the slider to the next index.
_setColor_drift(w, index) ==
  IF w.calls >= MaxChain
    THEN [w EXCEPT !.overflow = TRUE]
    ELSE QSliderSetValue([w EXCEPT !.calls = @ + 1, !.label = StyleFor(index)],
                         (index + 1) % (SliderMax + 1))

_setColor(w, index) ==
  IF w.calls >= MaxChain
    THEN [w EXCEPT !.overflow = TRUE]
    ELSE QSliderSetValue([w EXCEPT !.calls = @ + 1, !.label = StyleFor(index)], index)

_setSlider(w, index) ==
  IF w.calls >= MaxChain
    THEN [w EXCEPT !.overflow = TRUE]
    ELSE _setColor([w EXCEPT !.calls = @ + 1], index)

Widgets == [label |-> colorLabel, slider |-> colorSlider, calls |-> 0, overflow |-> FALSE]

\* ------------------------------------------------- checkbox handler
\* Variant of _updateState that asks for both checkboxes.
_updateState_and(t, s) == t /\ s

_updateState(t, s) == t \/ s

\* ------------------------------------------------------------- actions
\* Click on grid button i: clicked -> partial(_setColor, i).
ClickSwatch(i) ==
  LET w == _setColor(Widgets, i) IN
    /\ colorLabel' = w.label
    /\ colorSlider' = w.slider
    /\ lastEvent' = [op |-> "click", arg |-> i, calls |-> w.calls, overflow |-> w.overflow]
    /\ UNCHANGED << transformTypeCbx, shapeTypeCbx, changeColorBtn >>
    /\ UNCHANGED hostVars

\* The user drags the slider to v.
MoveSlider(v) ==
  LET w == QSliderSetValue(Widgets, v) IN
    /\ colorLabel' = w.label
    /\ colorSlider' = w.slider
    /\ lastEvent' = [op |-> "move", arg |-> v, calls |-> w.calls, overflow |-> w.overflow]
    /\ UNCHANGED << transformTypeCbx, shapeTypeCbx, changeColorBtn >>
    /\ UNCHANGED hostVars

ToggleTransform ==
  /\ transformTypeCbx' = ~transformTypeCbx
  /\ changeColorBtn' = _updateState(transformTypeCbx', shapeTypeCbx)
  /\ lastEvent' = [op |-> "toggleTransform", arg |-> 0, calls |-> 1, overflow |-> FALSE]
  /\ UNCHANGED << colorLabel, colorSlider, shapeTypeCbx >>
  /\ UNCHANGED hostVars

ToggleShape ==
  /\ shapeTypeCbx' = ~shapeTypeCbx
  /\ changeColorBtn' = _updateState(transformTypeCbx, shapeTypeCbx')
  /\ lastEvent' = [op |-> "toggleShape", arg |-> 0, calls |-> 1, overflow |-> FALSE]
  /\ UNCHANGED << colorLabel, colorSlider, transformTypeCbx >>
  /\ UNCHANGED hostVars

\* ----------------------------------------------------------- host scene
Transforms == {"t1", "t2"}
Shapes == {"s1", "s2"}
Nodes == Transforms \cup Shapes
AttrNames == {"overrideEnabled", "overrideColor"}

\* Direct shape children of each transform, in the host's order.
Hierarchies ==
  { [t1 |-> << "s1", "s2" >>, t2 |-> << >>],
    [t1 |-> << "s1" >>,       t2 |-> << "s2" >>] }

\* Which attributes each node exposes; at most one node lacks any.
Presences ==
  { p \in [Nodes -> SUBSET AttrNames] :
      Cardinality({ n \in Nodes : p[n] # AttrNames }) <= 1 }

\* Host selections: lists of distinct nodes.
Selections ==
  { << >> } \cup { << n >> : n \in Nodes }
            \cup { s \in { << n, m >> : n \in Nodes, m \in Nodes } : s[1] # s[2] }

\* failAt = n > 0: the host rejects the n-th setAttr of an apply (a locked or
\* referenced attribute), so n - 1 writes precede the failure; failAt = 0: the
\* host rejects none.
FailPoints == { 0, 2 }

\* Scenes with every hierarchy, attribute presence and selection; the host
\* rejects a write only in scenes where every node exposes both attributes.
Scenes ==
  { sc \in [children : Hierarchies, present : Presences, selection : Selections,
            failAt : FailPoints] :
      sc.failAt # 0 => \A n \in Nodes : sc.present[n] = AttrNames }

EmptyScene ==
  [children |-> [t1 |-> << >>, t2 |-> << >>], present |-> [n \in Nodes |-> AttrNames],
   selection |-> << >>, failAt |-> 0]

DefaultAttrs == [n \in Nodes |-> [overrideEnabled |-> 0, overrideColor |-> 0]]

\* ------------------------------------------------------- host commands
\* The host state threaded through one apply:
\*   attrs: attribute values; open: open undo chunks; log: host calls so far,
\*   each with the number of chunks open once the call has returned;
\*   err: the exception in flight ("none" when there is none);
\*   nset: setAttr calls made by this apply.
Raise(h, kind) ==
  [h EXCEPT !.err = kind,
            !.log = Append(@, [call |-> "raise", node |-> "", attr |-> kind, val |-> 0, open |-> h.open])]

\* cmds.undoInfo(openChunk=True)
undoInfoOpenChunk(h) ==
  [h EXCEPT !.open = @ + 1,
            !.log = Append(@, [call |-> "openChunk", node |-> "", attr |-> "", val |-> 0,
                               open |-> h.open + 1])]

\* cmds.undoInfo(closeChunk=True)
undoInfoCloseChunk(h) ==
  [h EXCEPT !.open = IF @ > 0 THEN @ - 1 ELSE 0,
            !.log = Append(@, [call |-> "closeChunk", node |-> "", attr |-> "", val |-> 0,
                               open |-> IF h.open > 0 THEN h.open - 1 ELSE 0])]

\* cmds.setAttr(node + '.' + attr, val); True is written as 1.
setAttr(h, sc, node, attr, val) ==
  IF h.nset + 1 = sc.failAt
    THEN Raise([h EXCEPT !.nset = @ + 1], "RuntimeError")
    ELSE [h EXCEPT !.nset = @ + 1,
                   !.attrs[node][attr] = val,
                   !.log = Append(@, [call |-> "setAttr", node |-> node, attr |-> attr,
                                      val |-> val, open |-> h.open])]

\* cmds.attributeQuery(attr, node=node, exists=True)
attributeQuery(sc, attr, node) == attr \in sc.present[node]

\* cmds.nodeType(obj)
nodeType(obj) == IF obj \in Transforms THEN "transform" ELSE "nurbsCurve"

\* cmds.listRelatives(obj, type='shape'): the direct shape children, and None
\* (not an empty list) when there are none.
listRelatives(sc, obj) ==
  IF sc.children[obj] = << >>
    THEN [isNone |-> TRUE, list |-> << >>]
    ELSE [isNone |-> FALSE, list |-> sc.children[obj]]

\* Variant of ls without selection=True: nodes of the scene, selected or not.
lsAll(sc) == << "t1", "s1" >>

\* cmds.ls(selection=True, type=['shape', 'transform'])
ls(sc) == SelectSeq(sc.selection, LAMBDA n : n \in Shapes \cup Transforms)

\* ------------------------------------------------------------ setColor
\* Lines 314-317: one shape child.
OverrideShape(h, sc, shape, ui) ==
  IF attributeQuery(sc, "overrideEnabled", shape)
    THEN LET h1 == setAttr(h, sc, shape, "overrideEnabled", 1) IN
           IF h1.err # "none" THEN h1
           ELSE IF attributeQuery(sc, "overrideColor", shape)
                  THEN setAttr(h1, sc, shape, "overrideColor", ui.slider)
                  ELSE h1
    ELSE h

RECURSIVE ShapeLoop(_, _, _, _, _)
\* for shape in shapes
ShapeLoop(h, sc, shapes, i, ui) ==
  IF h.err # "none" \/ i > Len(shapes)
    THEN h
    ELSE ShapeLoop(OverrideShape(h, sc, shapes[i], ui), sc, shapes, i + 1, ui)

\* Lines 310-317: the shape children of a selected transform.
ShapesOf(h, sc, obj, ui) ==
  IF nodeType(obj) = "transform"
    THEN LET shapes == listRelatives(sc, obj) IN
           IF shapes.isNone
             THEN Raise(h, "TypeError")          \* len(None)
             ELSE IF Len(shapes.list) > 0 /\ ui.shape
                    THEN ShapeLoop(h, sc, shapes.list, 1, ui)
                    ELSE h
    ELSE h

\* Variant of OverrideObj that does not ask the 'Transforms' checkbox.
OverrideObj_unflagged(h, sc, obj, ui) ==
  IF attributeQuery(sc, "overrideEnabled", obj)
    THEN LET h1 == setAttr(h, sc, obj, "overrideEnabled", 1) IN
           IF h1.err # "none" THEN h1
           ELSE IF attributeQuery(sc, "overrideColor", obj)
                  THEN setAttr(h1, sc, obj, "overrideColor", ui.slider)
                  ELSE h1
    ELSE h

\* Lines 318-322: the selected node itself.
OverrideObj(h, sc, obj, ui) ==
  IF ui.transform
    THEN IF attributeQuery(sc, "overrideEnabled", obj)
           THEN LET h1 == setAttr(h, sc, obj, "overrideEnabled", 1) IN
                  IF h1.err # "none" THEN h1
                  ELSE IF attributeQuery(sc, "overrideColor", obj)
                         THEN setAttr(h1, sc, obj, "overrideColor", ui.slider)
                         ELSE h1
           ELSE h
    ELSE h

RECURSIVE ObjLoop(_, _, _, _, _)
\* for obj in sel
ObjLoop(h, sc, sel, i, ui) ==
  IF h.err # "none" \/ i > Len(sel)
    THEN h
    ELSE LET h1 == ShapesOf(h, sc, sel[i], ui) IN
           ObjLoop(IF h1.err # "none" THEN h1 ELSE OverrideObj(h1, sc, sel[i], ui),
                   sc, sel, i + 1, ui)

\* The undecorated body of setColor.
setColor(h, sc, ui) ==
  LET sel == ls(sc) IN
    IF Len(sel) > 0 THEN ObjLoop(h, sc, sel, 1, ui) ELSE h

\* ---------------------------------------------------------------- tpUndo
\* Variants of wrapper: no chunk at all; a chunk that is never closed; a close
\* outside any finally block.
wrapper_noChunk(h, sc, ui) == setColor(h, sc, ui)

wrapper_noClose(h, sc, ui) == setColor(undoInfoOpenChunk(h), sc, ui)

wrapper_noFinally(h, sc, ui) ==
  LET h1 == setColor(undoInfoOpenChunk(h), sc, ui) IN
    IF h1.err # "none" THEN h1 ELSE undoInfoCloseChunk(h1)

\* openChunk; try: fn(...) finally: closeChunk.  An exception of fn stays in
\* err and leaves the wrapper after the close.
wrapper(h, sc, ui) ==
  undoInfoCloseChunk(setColor(undoInfoOpenChunk(h), sc, ui))

\* Click on 'Change color' (a disabled button emits no clicked signal).
Apply ==
  /\ changeColorBtn
  /\ Len(applies) < MaxApplies
  /\ LET ui == [transform |-> transformTypeCbx, shape |-> shapeTypeCbx,
                slider |-> colorSlider]
         r == wrapper([attrs |-> attrs, open |-> openChunks, log |-> hostLog,
                       err |-> "none", nset |-> 0], scene, ui)
     IN /\ attrs' = r.attrs
        /\ openChunks' = r.open
        /\ hostLog' = r.log
        /\ applies' = Append(applies,
             [first |-> Len(hostLog) + 1, last |-> Len(r.log),
              transform |-> ui.transform, shape |-> ui.shape, k |-> ui.slider,
              raised |-> r.err, openBefore |-> openChunks, openAfter |-> r.open])
  /\ UNCHANGED << uiVars, lastEvent, scene >>

\* Slider values the apply specification drives the dialog to.
SampleIndices == { SliderMax }

\* State of the dialog when customUI returns.
customUI ==
  /\ colorLabel = InitialStyle
  /\ colorSlider = SliderInit
  /\ transformTypeCbx = FALSE
  /\ shapeTypeCbx = TRUE
  /\ changeColorBtn = TRUE
  /\ lastEvent = [op |-> "none", arg |-> 0, calls |-> 0, overflow |-> FALSE]

InitDialog ==
  /\ customUI
  /\ scene = EmptyScene
  /\ attrs = DefaultAttrs
  /\ openChunks = 0
  /\ hostLog = << >>
  /\ applies = << >>

NextDialog ==
  \/ \E i \in Indices : ClickSwatch(i)
  \/ \E v \in Indices : MoveSlider(v)
  \/ ToggleTransform
  \/ ToggleShape

SpecDialog == InitDialog /\ [][NextDialog]_vars

Init ==
  /\ customUI
  /\ scene \in Scenes
  /\ attrs = DefaultAttrs
  /\ openChunks = 0
  /\ hostLog = << >>
  /\ applies = << >>

Next ==
  \/ \E i \in SampleIndices : ClickSwatch(i)
  \/ ToggleTransform
  \/ ToggleShape
  \/ Apply

Spec == Init /\ [][Next]_vars

\* ------------------------------------------------- reading the host log
Range(a) == a.first .. a.last

IsWrite(i) == hostLog[i].call = "setAttr"

\* The attribute writes of apply record a, as << node, attribute, value >>.
WritesOf(a) ==
  { << hostLog[i].node, hostLog[i].attr, hostLog[i].val >> : i \in { p \in Range(a) : IsWrite(p) } }

RaisesIn(a) == { i \in Range(a) : hostLog[i].call = "raise" }

\* Open chunks right after / right before the i-th host call.
DepthAfter(i) == IF i = 0 THEN 0 ELSE hostLog[i].open

DepthBefore(i) == DepthAfter(i - 1)

\* The outermost chunk the i-th host call falls in, counted from 1.
ChunkOf(i) ==
  Cardinality({ p \in 1..i : hostLog[p].call = "openChunk" /\ hostLog[p].open = 1 })

SelectedNodes == { scene.selection[i] : i \in 1..Len(scene.selection) }

ChildrenOf(t) == { scene.children[t][i] : i \in 1..Len(scene.children[t]) }

\* The nodes an apply with the flags of record a has to enable.
Targets(a) ==
  { c \in Nodes : /\ a.shape
                  /\ \E t \in SelectedNodes \cap Transforms : c \in ChildrenOf(t)
                  /\ "overrideEnabled" \in scene.present[c] }
  \cup { n \in SelectedNodes : a.transform /\ "overrideEnabled" \in scene.present[n] }

ExpectedWrites(a) ==
  { << n, "overrideEnabled", 1 >> : n \in Targets(a) }
  \cup { << n, "overrideColor", a.k >> :
           n \in { m \in Targets(a) : "overrideColor" \in scene.present[m] } }

EverWritten == { << hostLog[i].node, hostLog[i].attr >> : i \in { p \in 1..Len(hostLog) : IsWrite(p) } }

ApplyIds == 1 .. Len(applies)

\* --------------------------------------------------------------- claims

\* C1: an apply that completes writes overrideEnabled on exactly the nodes the
\* flags and attribute presence select (shape children of selected transforms
\* under the shape flag, the selected nodes themselves under the transform
\* flag), overrideColor = k on those of them that expose overrideColor, and
\* nothing else; an attribute no apply wrote keeps its value.
C1_ApplyWritesExactly ==
  /\ \A j \in ApplyIds :
       applies[j].raised = "none" => WritesOf(applies[j]) = ExpectedWrites(applies[j])
  /\ (\A j \in ApplyIds : applies[j].raised = "none") =>
       LET written == EverWritten IN
         \A n \in Nodes : \A at \in AttrNames :
           << n, at >> \notin written => attrs[n][at] = DefaultAttrs[n][at]
  /\ (applies # << >> /\ applies[Len(applies)].raised = "none") =>
       \A w \in ExpectedWrites(applies[Len(applies)]) : attrs[w[1]][w[2]] = w[3]

C1_Witness ==
  \E j \in ApplyIds :
    /\ applies[j].raised = "none"
    /\ applies[j].shape /\ applies[j].transform
    /\ applies[j].k = SliderMax
    /\ \E t \in SelectedNodes \cap Transforms : \E c \in ChildrenOf(t) :
         /\ << c, "overrideColor", SliderMax >> \in WritesOf(applies[j])
         /\ << t, "overrideEnabled", 1 >> \in WritesOf(applies[j])
         /\ \E n \in ChildrenOf(t) \cup SelectedNodes :
              /\ "overrideEnabled" \in scene.present[n]
              /\ "overrideColor" \notin scene.present[n]
              /\ << n, "overrideEnabled", 1 >> \in WritesOf(applies[j])

\* C2: the apply button is enabled exactly when the transform checkbox or the
\* shape checkbox is checked.
C2_ButtonEnabledIff == changeColorBtn <=> (transformTypeCbx \/ shapeTypeCbx)

C2_Witness == ~transformTypeCbx /\ ~shapeTypeCbx /\ ~changeColorBtn

\* C3: the host calls of one apply start with the opening of a chunk and end
\* with its close, with no other open or close between them, so every write of
\* the apply falls in that one open chunk.
C3_WritesInsideOwnChunk ==
  \A j \in ApplyIds :
    LET a == applies[j] IN
      /\ a.first < a.last
      /\ hostLog[a.first].call = "openChunk"
      /\ hostLog[a.last].call = "closeChunk"
      /\ \A i \in (a.first + 1) .. (a.last - 1) :
           hostLog[i].call \notin { "openChunk", "closeChunk" }
      /\ \A i \in Range(a) : IsWrite(i) => DepthAfter(i) = a.openBefore + 1

C3_Witness ==
  \E j \in ApplyIds :
    /\ Cardinality({ i \in Range(applies[j]) : IsWrite(i) }) >= 4
    /\ Cardinality({ w[1] : w \in WritesOf(applies[j]) }) >= 2

\* C4: the chunk of an apply is closed before the chunk of the next apply is
\* opened; chunks never nest, and the writes of the j-th apply lie in the j-th
\* outermost chunk, so writes of different applies lie in different chunks.
C4_SeparateUndoSteps ==
  /\ \A i \in 1..Len(hostLog) : DepthAfter(i) \in { 0, 1 }
  /\ \A j \in ApplyIds :
       /\ DepthBefore(applies[j].first) = 0
       /\ DepthAfter(applies[j].last) = 0
       /\ j > 1 => applies[j - 1].last < applies[j].first
       /\ \A i \in Range(applies[j]) :
            IsWrite(i) => DepthAfter(i) = 1 /\ ChunkOf(i) = j

C4_Witness ==
  /\ Len(applies) >= 2
  /\ WritesOf(applies[1]) # {}
  /\ WritesOf(applies[2]) # {}
  /\ applies[1].k # applies[2].k

\* C5: an apply that fails after at least one write still closes its chunk
\* (as many chunks are open after it as before), keeps the writes made before
\* the failure, all inside that chunk, and hands the error to its caller.
C5_FailedApplyClosesChunk ==
  \A j \in ApplyIds :
    LET a == applies[j] IN
      (\E e \in RaisesIn(a) : \E i \in Range(a) : IsWrite(i) /\ i < e) =>
        /\ a.openAfter = a.openBefore
        /\ hostLog[a.last].call = "closeChunk"
        /\ \A e \in RaisesIn(a) : e < a.last /\ a.raised = hostLog[e].attr
        /\ \A i \in Range(a) : IsWrite(i) => DepthAfter(i) = a.openBefore + 1
        /\ (j = Len(applies)) => \A w \in WritesOf(a) : attrs[w[1]][w[2]] = w[3]

C5_Witness ==
  \E j \in ApplyIds :
    /\ applies[j].raised = "RuntimeError"
    /\ \E e \in RaisesIn(applies[j]) : \E i \in Range(applies[j]) : IsWrite(i) /\ i < e

\* C6: an apply over an empty selection writes no attribute and raises no
\* error, whatever the flags and the index.
C6_EmptySelectionNoWrites ==
  scene.selection = << >> =>
    /\ \A j \in ApplyIds : WritesOf(applies[j]) = {} /\ applies[j].raised = "none"
    /\ attrs = DefaultAttrs

C6_Witness ==
  /\ scene.selection = << >>
  /\ Len(applies) >= 2
  /\ applies[1].transform /\ applies[2].shape
  /\ applies[2].k = SliderMax

\* C7: after a click on swatch i the slider value is i and the preview shows
\* palette entry i.
C7_SwatchSetsSliderAndPreview ==
  lastEvent.op = "click" =>
    /\ colorSlider = lastEvent.arg
    /\ colorLabel = StyleFor(lastEvent.arg)

C7_Witness ==
  /\ lastEvent.op = "click"
  /\ lastEvent.arg = SliderMax
  /\ lastEvent.calls > 1
  /\ colorSlider = SliderMax

\* C8: unless the host rejects a write, an apply raises no error: a node or
\* child it cannot write (no overrideEnabled, no overrideColor, a transform
\* whose children lack them or that has no shape children) is skipped, and
\* every selected node that meets the flag and attribute conditions is written.
C8_UnwritableNodesSkipped ==
  \A j \in ApplyIds :
    (\A e \in RaisesIn(applies[j]) : hostLog[e].attr # "RuntimeError") =>
      /\ applies[j].raised = "none"
      /\ WritesOf(applies[j]) = ExpectedWrites(applies[j])

\* C9: the preview always shows the palette colour at the slider's index.
C9_PreviewShowsSliderIndex == colorLabel = StyleFor(colorSlider)

\* C10: the handler chain started by one click or slider move ends, after at
\* most three handler calls.
C10_HandlerChainEnds == ~lastEvent.overflow /\ lastEvent.calls <= 3

C10_Witness == lastEvent.op = "click" /\ lastEvent.calls = 3 /\ ~lastEvent.overflow
====
